---- MODULE Spec2Model ----
(***************************************************************************)
(* Model of the live-data cache of the memory-management dashboard         *)
(* (src/app.py, "DATA COLLECTION - Non-blocking background fetcher").      *)
(*                                                                         *)
(* The module-level globals _bg_live_data, _bg_live_time and _bg_thread    *)
(* are the shared state.  Session threads run collect_live_data() and      *)
(* clear_live_cache(); worker threads run _bg_fetch_live().  Every block   *)
(* that the code runs under _bg_lock is one atomic action here; every      *)
(* access to _bg_thread, which the code makes outside the lock, is an      *)
(* action of its own, so that all interleavings of the unlocked            *)
(* test / create / start / join sequence are explored.                    *)
(***************************************************************************)
EXTENDS Integers, Sequences, FiniteSets, Bags, TLC

\* ---------------------------------------------------------------- bounds
MaxCalls  == 3        \* collect_live_data() calls begun in one behaviour
MaxTicks  == 1        \* clock advances in one behaviour
StartTime == 100      \* time.time() when the module is loaded
MaxProcs  == 3        \* length of a process list given to the kill logic
MaxKb     == 5        \* largest KB figure in a device memory dump
MaxPssLines == 3      \* process lines in the size table of a dump
MaxOomLines == 2      \* process lines in the priority table of a dump

\* ------------------------------------------------------ program constants
CACHE_TTL_SECONDS == 25
MIN_KILL_SCORE == 3
THRESHOLD_CRITICAL == 80
THRESHOLD_WARNING == 60
OOM_DEFAULT_SCORE == 3
OOM_DEFAULT_LABEL == "Unknown"

OOM_PRIORITY ==
    [fore   |-> [label |-> "Foreground",  score |-> 0],
     fg     |-> [label |-> "Foreground",  score |-> 0],
     vis    |-> [label |-> "Visible",     score |-> 1],
     percep |-> [label |-> "Perceptible", score |-> 2],
     prev   |-> [label |-> "Previous",    score |-> 3],
     bak    |-> [label |-> "Background",  score |-> 4],
     cch    |-> [label |-> "Cached",      score |-> 5],
     svc    |-> [label |-> "Service",     score |-> 2],
     svcb   |-> [label |-> "Service-B",   score |-> 3],
     psvc   |-> [label |-> "Persist-Svc", score |-> 0],
     home   |-> [label |-> "Home",        score |-> 1],
     pers   |-> [label |-> "Persistent",  score |-> 0],
     sys    |-> [label |-> "System",      score |-> 0]]

KILL_BLOCKLIST ==
    {"system", "system_server", "com.android.systemui",
     "com.android.launcher3", "com.google.android.launcher",
     "com.android.phone", "com.android.dialer",
     "com.android.providers.telephony", "com.android.providers.contacts",
     "com.android.settings", "com.android.inputmethod.latin", "android",
     "android.process.acore", "android.process.media"}

\* A call creates at most one Thread object.
ThreadIds == 1..MaxCalls

\* Python's None for _bg_live_data and for the local `data`; a stored value
\* is the tuple <<memory, processes, device_info>>, each component being the
\* id of the refresh (worker thread) that fetched it.
None == <<>>

\* Python's None for _bg_thread.
NoThread == 0

VARIABLES
    bg_live_data,   \* _bg_live_data
    bg_live_time,   \* _bg_live_time
    bg_thread,      \* _bg_thread: NoThread or the id of a Thread object
    now,            \* time.time()
    threads,        \* per Thread object: "unborn" (not constructed), "new"
                    \* (constructed), "run" (started, in _bg_fetch_live),
                    \* "done" (ended after storing), "failed" (ended in the
                    \* except clause)
    calls,          \* the collect_live_data() calls in progress: a bag of
                    \* records, one per session thread inside the function
    ncalls,         \* number of calls begun so far
    finished,       \* the call that returned or raised in the last step
    pendingInval,   \* history: clear_live_cache() ran on a populated cache
                    \* and no collect_live_data() call has begun since
    processes,      \* the process list of the current render (app.py)
    candidates,     \* get_kill_candidates(processes, memory) of the render
    freed_est,      \* estimate_freed_mb(candidates), in tenths of a MB
    shown,          \* the Smart Recommendations tab has been rendered
    requested,      \* packages of the last force-stop request issued
    dump,           \* what the regular expressions of memory_reader find in
                    \* the device output of `dumpsys meminfo` (Total, Used,
                    \* Free, Lost, Status) and of `cat /proc/meminfo`
                    \* (MemTotal, MemFree, MemAvailable), and whether
                    \* run_adb succeeded for each command (DumpsysOk, ProcOk)
    memory,         \* the MemoryInfo of the render cycle
    usage_pct,      \* usage_pct (app.py), a fraction <<numerator, denominator>>
    severity,       \* severity (app.py)
    _usage_pct,     \* _usage_pct of the algorithm tab (app.py), in tenths:
                    \* a fraction <<numerator, 10>>
    _sev,           \* _sev of the algorithm tab (app.py)
    upos,           \* how far the refresh and the render cycle have got
                    \* with the above; "raised" when get_system_memory()
                    \* has raised
    pss_lines,      \* the process lines of `dumpsys meminfo` matched by
                    \* _RE_PSS_LINE, in order: <<package, pss_kb>>
    oom_lines,      \* the process lines of `dumpsys activity processes`
                    \* matched by _RE_PROC_LINE, in order: <<code, package>>
    oom_ok,         \* run_adb("dumpsys activity processes") succeeded
    pss_ok,         \* run_adb("dumpsys meminfo") of _get_pss_map succeeded
    proc_list,      \* the list returned by get_running_processes()
    ppos            \* "input" before get_running_processes(), "listed"
                    \* when it has returned, "raised" when it has raised,
                    \* "stored" when the worker has stored the triple

cacheVars == <<bg_live_data, bg_live_time, bg_thread, now, threads, calls,
               ncalls, finished, pendingInval>>

killVars == <<processes, candidates, freed_est, shown, requested>>

usageVars == <<dump, memory, usage_pct, severity, _usage_pct, _sev, upos>>

procVars == <<pss_lines, oom_lines, oom_ok, pss_ok, proc_list, ppos>>

vars == <<cacheVars, killVars, usageVars, procVars>>

\* A call holds its position (pc), its locals (data, need_fetch, the thread
\* being joined) and its history: whether the cache was empty when it began
\* (empty), whether it is the first call after an invalidation (afterClear),
\* whether its test at line 491 passed (mustStart), whether its start()
\* started a worker (started), whether it found a worker running at line 491
\* (found), and whether it waited in join() (waited).  Session threads differ
\* in nothing else, so the calls in progress form a bag.
NewCall(data, need, afterClear) ==
    [pc |-> "check", data |-> data, need |-> need, jt |-> NoThread,
     empty |-> (data = None), afterClear |-> afterClear,
     mustStart |-> FALSE, started |-> FALSE, found |-> FALSE,
     waited |-> FALSE]

\* Value of `finished` when the last step ended no call.
NoCall ==
    [pc |-> "none", data |-> None, need |-> FALSE, jt |-> NoThread,
     empty |-> FALSE, afterClear |-> FALSE,
     mustStart |-> FALSE, started |-> FALSE, found |-> FALSE,
     waited |-> FALSE]

InProgress == BagToSet(calls)

\* The call r moves on as r2.  `return data` and `raise` end the call: it
\* leaves the bag and `finished` shows it until the next step.
Moves(r, r2) ==
    IF r2.pc \in {"returned", "raised"}
    THEN /\ calls' = calls (-) SetToBag({r})
         /\ finished' = r2
    ELSE /\ calls' = (calls (-) SetToBag({r})) (+) SetToBag({r2})
         /\ finished' = NoCall

\* threading.Thread.is_alive(): started and not yet finished.
IsAlive(t) ==
    t # NoThread /\ threads[t] = "run"

Running == {t \in ThreadIds : threads[t] = "run"}

\* The Thread objects constructed so far are 1 .. NumCreated.
NumCreated == Cardinality({t \in ThreadIds : threads[t] # "unborn"})

\* The clock advances by a full TTL (an age the code still treats as fresh)
\* or by one second more (the first stale age).  An offset of n ticks lies
\* in n*TTL .. n*(TTL+1), so the number of ticks is recovered from it.
TickSteps == {CACHE_TTL_SECONDS, CACHE_TTL_SECONDS + 1}

TicksTaken ==
    (now - StartTime) \div CACHE_TTL_SECONDS

\* No process list has been rendered and no force-stop has been requested.
KillIdle ==
    /\ processes = <<>>
    /\ candidates = <<>>
    /\ freed_est = 0
    /\ shown = FALSE
    /\ requested = {}

\* re.search() found no match.
NoMatch == -1

\* _RE_STATUS found no match (a match of \w+ is never empty).
NoStatus == ""

\* MemoryInfo(): the fields of the snapshot but the timestamp.
MemoryInfo(total_kb, used_kb, free_kb, lost_kb, status) ==
    [total_kb |-> total_kb, used_kb |-> used_kb, free_kb |-> free_kb,
     lost_kb |-> lost_kb, status |-> status]

\* No memory dump has been read.
UsageIdle ==
    /\ dump = [Total |-> NoMatch, Used |-> NoMatch, Free |-> NoMatch,
               Lost |-> NoMatch, Status |-> NoStatus, DumpsysOk |-> TRUE,
               MemTotal |-> NoMatch, MemFree |-> NoMatch,
               MemAvailable |-> NoMatch, ProcOk |-> TRUE]
    /\ memory = MemoryInfo(0, 0, 0, 0, "normal")
    /\ usage_pct = <<0, 1>>
    /\ severity = "none"
    /\ _usage_pct = <<0, 10>>
    /\ _sev = "none"
    /\ upos = "idle"

\* No process tables have been read.
ProcIdle ==
    /\ pss_lines = <<>>
    /\ oom_lines = <<>>
    /\ oom_ok = TRUE
    /\ pss_ok = TRUE
    /\ proc_list = <<>>
    /\ ppos = "idle"

CacheInit ==
    /\ bg_live_data = None
    /\ bg_live_time = 0
    /\ bg_thread = NoThread
    /\ now = StartTime
    /\ threads = [t \in ThreadIds |-> "unborn"]
    /\ calls = EmptyBag
    /\ ncalls = 0
    /\ finished = NoCall
    /\ pendingInval = FALSE

Init ==
    /\ CacheInit
    /\ KillIdle
    /\ UsageIdle
    /\ ProcIdle

\* ------------------------------------------------------------ environment
Tick ==
    /\ TicksTaken < MaxTicks
    /\ \E d \in TickSteps : now' = now + d
    /\ finished' = NoCall
    /\ UNCHANGED <<bg_live_data, bg_live_time, bg_thread, threads, calls,
                   ncalls, pendingInval>>

\* ------------------------------------------------- _bg_fetch_live (worker)
\* The three fetches of a worker touch none of the shared variables, so the
\* model keeps one position for them ("run").  get_system_memory() and
\* get_running_processes() may raise (run_adb raises RuntimeError);
\* get_device_info() catches every RuntimeError itself and never raises.

\* The tuple a worker builds from its locals memory, processes and
\* device_info: each component carries the id of the refresh that fetched it.
Fetched(t) ==
    <<t, t, t>>

\* Mutant of FetchFail: the except clause drops the cached value.
FetchFail_DropsCache(t) ==
    /\ threads[t] = "run"
    /\ threads' = [threads EXCEPT ![t] = "failed"]
    /\ bg_live_data' = None
    /\ bg_live_time' = 0
    /\ finished' = NoCall
    /\ UNCHANGED <<bg_thread, now, calls, ncalls, pendingInval>>

\* get_system_memory() or get_running_processes() raises:
\* `except Exception: pass`, the worker ends without touching the cache.
FetchFail(t) ==
    /\ threads[t] = "run"
    /\ threads' = [threads EXCEPT ![t] = "failed"]
    /\ finished' = NoCall
    /\ UNCHANGED <<bg_live_data, bg_live_time, bg_thread, now, calls, ncalls,
                   pendingInval>>

\* Mutant of StoreLive: on a populated cache only the memory snapshot is
\* replaced, the process list and device metadata are left in place.
StoreLive_Piecewise(t) ==
    /\ threads[t] = "run"
    /\ bg_live_data' = IF bg_live_data = None
                       THEN Fetched(t)
                       ELSE <<Fetched(t)[1], bg_live_data[2], bg_live_data[3]>>
    /\ bg_live_time' = now
    /\ threads' = [threads EXCEPT ![t] = "done"]
    /\ finished' = NoCall
    /\ UNCHANGED <<bg_thread, now, calls, ncalls, pendingInval>>

\* All three fetches returned; with _bg_lock:
\*     _bg_live_data = (memory, processes, device_info)
\*     _bg_live_time = time.time()
StoreLive(t) ==
    /\ threads[t] = "run"
    /\ bg_live_data' = Fetched(t)
    /\ bg_live_time' = now
    /\ threads' = [threads EXCEPT ![t] = "done"]
    /\ finished' = NoCall
    /\ UNCHANGED <<bg_thread, now, calls, ncalls, pendingInval>>

\* ------------------------------------------------------ collect_live_data
\* need_fetch = data is None or age > CACHE_TTL_SECONDS or force
NeedFetch(data, age, force) ==
    data = None \/ age > CACHE_TTL_SECONDS \/ force

\* Mutant of MayStart: a Thread object that has ended still counts as a
\* refresh in flight.
MayStart_OnlyFirst(t) ==
    t = NoThread

\* _bg_thread is None or not _bg_thread.is_alive()
MayStart(t) ==
    t = NoThread \/ ~IsAlive(t)

\* `data is None`, the left operand of the first-load test at line 496.
FirstLoad(data) ==
    data = None

\* data is None and _bg_thread is not None
MustWait(data, t) ==
    FirstLoad(data) /\ t # NoThread

\* After the kick-off block the call returns `data` unless the first-load
\* test can succeed; that test reads _bg_thread again, so it is a step of
\* its own.
AfterKick(data) ==
    IF FirstLoad(data) THEN "first" ELSE "returned"

\* if data is None: raise RuntimeError(...)  /  return data
AfterWait(data) ==
    IF data = None THEN "raised" ELSE "returned"

\* with _bg_lock: data = _bg_live_data; age = time.time() - _bg_live_time
\* followed by the local computation of need_fetch.  A session thread that
\* is not inside the function enters it.
Call(force) ==
    /\ ncalls < MaxCalls
    /\ ncalls' = ncalls + 1
    /\ calls' = calls (+) SetToBag({
          NewCall(bg_live_data,
                  NeedFetch(bg_live_data, now - bg_live_time, force),
                  pendingInval)})
    /\ pendingInval' = FALSE
    /\ finished' = NoCall
    /\ UNCHANGED <<bg_live_data, bg_live_time, bg_thread, now, threads>>

\* if need_fetch and (_bg_thread is None or not _bg_thread.is_alive()):
Check(r) ==
    /\ r.pc = "check"
    /\ IF r.need /\ MayStart(bg_thread)
       THEN Moves(r, [r EXCEPT !.pc = "create", !.mustStart = TRUE])
       ELSE Moves(r, [r EXCEPT !.pc = AfterKick(r.data),
                               !.found = r.need])
    /\ UNCHANGED <<bg_live_data, bg_live_time, bg_thread, now, threads,
                   ncalls, pendingInval>>

\* _bg_thread = threading.Thread(target=_bg_fetch_live, daemon=True)
Create(r) ==
    /\ r.pc = "create"
    /\ threads' = [threads EXCEPT ![NumCreated + 1] = "new"]
    /\ bg_thread' = NumCreated + 1
    /\ Moves(r, [r EXCEPT !.pc = "start"])
    /\ UNCHANGED <<bg_live_data, bg_live_time, now, ncalls, pendingInval>>

\* _bg_thread.start(): the global is read again.  Thread.start() raises
\* RuntimeError("threads can only be started once") unless the object is new.
Start(r) ==
    /\ r.pc = "start"
    /\ IF threads[bg_thread] = "new"
       THEN /\ threads' = [threads EXCEPT ![bg_thread] = "run"]
            /\ Moves(r, [r EXCEPT !.pc = AfterKick(r.data),
                                  !.started = TRUE])
       ELSE /\ threads' = threads
            /\ Moves(r, [r EXCEPT !.pc = "raised"])
    /\ UNCHANGED <<bg_live_data, bg_live_time, bg_thread, now, ncalls,
                   pendingInval>>

\* if data is None and _bg_thread is not None: _bg_thread.join(timeout=...)
\* Thread.join() raises RuntimeError("cannot join thread before it is
\* started") on a new object; otherwise the caller starts waiting.
First(r) ==
    /\ r.pc = "first"
    /\ IF MustWait(r.data, bg_thread)
       THEN IF threads[bg_thread] = "new"
            THEN Moves(r, [r EXCEPT !.pc = "raised"])
            ELSE Moves(r, [r EXCEPT !.pc = "join", !.jt = bg_thread])
       ELSE Moves(r, [r EXCEPT !.pc = "returned"])
    /\ UNCHANGED <<bg_live_data, bg_live_time, bg_thread, now, threads,
                   ncalls, pendingInval>>

\* join() has returned; with _bg_lock: data = _bg_live_data; then the
\* local test of data.
Reread(r) ==
    /\ Moves(r, [r EXCEPT !.pc = AfterWait(bg_live_data),
                          !.data = bg_live_data,
                          !.jt = NoThread,
                          !.waited = TRUE])
    /\ UNCHANGED <<bg_live_data, bg_live_time, bg_thread, now, threads,
                   ncalls, pendingInval>>

\* join() returns because the worker has ended.
JoinDone(r) ==
    /\ r.pc = "join"
    /\ ~IsAlive(r.jt)
    /\ Reread(r)

\* join() returns because ADB_TIMEOUT_SECONDS + 5 elapsed with the worker
\* still running.
JoinTimeout(r) ==
    /\ r.pc = "join"
    /\ IsAlive(r.jt)
    /\ Reread(r)

\* ------------------------------------------------------- clear_live_cache
\* Mutant of ClearLiveCache: the invalidation discards the cached value too.
ClearLiveCache_DropsData ==
    /\ bg_live_time' = 0
    /\ bg_live_data' = None
    /\ pendingInval' = (pendingInval \/ bg_live_data # None)
    /\ finished' = NoCall
    /\ UNCHANGED <<bg_thread, now, threads, calls, ncalls>>

\* with _bg_lock: _bg_live_time = 0.0
\* Called from the button handlers of a session thread.
ClearLiveCache ==
    /\ bg_live_time' = 0
    /\ pendingInval' = (pendingInval \/ bg_live_data # None)
    /\ finished' = NoCall
    /\ UNCHANGED <<bg_live_data, bg_thread, now, threads, calls, ncalls>>

\* The cache steps leave the values of the render cycle alone.
Rest == UNCHANGED <<killVars, usageVars, procVars>>

Next ==
    \/ Tick /\ Rest
    \/ \E t \in ThreadIds : FetchFail(t) /\ Rest
    \/ \E t \in ThreadIds : StoreLive(t) /\ Rest
    \/ \E force \in BOOLEAN : Call(force) /\ Rest
    \/ \E r \in InProgress : Check(r) /\ Rest
    \/ \E r \in InProgress : Create(r) /\ Rest
    \/ \E r \in InProgress : Start(r) /\ Rest
    \/ \E r \in InProgress : First(r) /\ Rest
    \/ \E r \in InProgress : JoinDone(r) /\ Rest
    \/ \E r \in InProgress : JoinTimeout(r) /\ Rest
    \/ ClearLiveCache /\ Rest

Spec == Init /\ [][Next]_vars

\* ================================================================= claims
\* The calls in progress together with the call that has just ended.
Observed ==
    InProgress \cup (IF finished.pc = "none" THEN {} ELSE {finished})

\* A value of the cache or of `data` whose three components come from one
\* refresh, and that refresh ended by storing.
OneCycle(d) ==
    /\ Len(d) = 3
    /\ d[1] = d[2]
    /\ d[2] = d[3]
    /\ d[1] \in ThreadIds
    /\ threads[d[1]] = "done"

C2_PopulatedCallReturnsWithoutWaiting ==
    \A r \in Observed :
        ~r.empty => /\ r.pc \notin {"join", "raised"}
                    /\ ~r.waited
                    /\ r.jt = NoThread
                    /\ r.data # None

\* C3: collect_live_data() raises only when the cache is still empty after
\* the first-fetch wait; a call on a populated cache never raises.
C3_RaisesOnlyWhenEmptyAfterWait ==
    finished.pc = "raised" =>
        /\ finished.empty
        /\ finished.waited
        /\ finished.data = None

\* C4: a refresh whose fetch fails leaves the cached triple and the cache
\* timestamp as they are: the step in which a running worker ends in its
\* except clause changes neither.
C4_FailedRefreshKeepsCache ==
    [][(\E t \in ThreadIds : threads[t] = "run" /\ threads'[t] = "failed")
          => UNCHANGED <<bg_live_data, bg_live_time>>]_vars

\* C4 witness: a refresh has failed while the triple of an earlier refresh is
\* cached.
C4_Witness ==
    \E t \in ThreadIds :
        /\ threads[t] = "failed"
        /\ bg_live_data # None
        /\ bg_live_data[1] < t

\* C5: once populated the cache never reverts to None, and a step that
\* resets the timestamp to 0 (the invalidation) leaves the cached triple as
\* it is.
C5_NeverRevertsToEmpty ==
    [][/\ bg_live_data # None => bg_live_data' # None
       /\ (bg_live_time' = 0 /\ bg_live_data # None)
             => bg_live_data' = bg_live_data]_vars

\* C5 witness: a populated cache has been invalidated and a later refresh has
\* failed; the triple is still there.
C5_Witness ==
    /\ bg_live_data # None
    /\ bg_live_time = 0
    /\ pendingInval
    /\ \E t \in ThreadIds : threads[t] = "failed" /\ bg_live_data[1] < t

\* C6: the cached triple, every triple a call holds and every triple a call
\* returns has its memory snapshot, process list and device metadata from
\* one and the same refresh.
C6_TripleFromOneCycle ==
    /\ bg_live_data # None => OneCycle(bg_live_data)
    /\ \A r \in Observed : r.data # None => OneCycle(r.data)

\* C6 witness: a call returns the triple of a second or later refresh while
\* yet another refresh is in flight.
C6_Witness ==
    /\ finished.pc = "returned"
    /\ finished.data # None
    /\ finished.data[1] > 1
    /\ Running # {}

\* C7: the first collect_live_data() call after clear_live_cache() on a
\* populated cache has, when it returns, started a refresh or found one
\* running.
C7_CallAfterClearTriggers ==
    (finished.pc = "returned" /\ finished.afterClear)
        => (finished.started \/ finished.found)

\* C8: a call on an empty cache starts or finds a refresh and waits for it;
\* when the wait ends it returns the stored triple if the cache is populated
\* and raises otherwise; no call returns None.
C8_FirstCallWaitsThenReturnsOrRaises ==
    /\ \A r \in InProgress :
          r.pc = "join" => /\ r.empty
                           /\ r.jt # NoThread
                           /\ (r.started \/ r.found)
    /\ finished.pc = "returned" => finished.data # None
    /\ (finished.pc # "none" /\ finished.empty)
          => (finished.waited /\ (finished.started \/ finished.found))
    /\ finished.waited =>
          /\ finished.data = bg_live_data
          /\ (finished.pc = "raised") = (bg_live_data = None)

\* C9: a call that needs a fetch (stale, empty or forced) and finds no
\* refresh running at its test starts exactly one background refresh.
C9_NeededFetchStartsOne ==
    (finished.pc # "none" /\ finished.mustStart) => finished.started

\* C10: a call that finds fresh cached data (age within CACHE_TTL_SECONDS, no
\* force) returns it and kicks off a background refresh for the next cycle.
C10_FreshCallKicksRefresh ==
    (finished.pc = "returned" /\ ~finished.need) => finished.started

\* A step in which collect_live_data(force=True) is entered on a fresh
\* populated cache: the new call needs a fetch although an unforced call
\* would not.
ForcedCallStep ==
    /\ ncalls' = ncalls + 1
    /\ bg_live_data # None
    /\ ~NeedFetch(bg_live_data, now - bg_live_time, FALSE)
    /\ \E r \in BagToSet(calls') :
          /\ r.pc = "check"
          /\ r.need
          /\ CopiesIn(r, calls') > CopiesIn(r, calls)

\* C11: collect_live_data(force=True) resets the cache age, so that the next
\* (unforced) collect_live_data() call needs a fetch, whether or not a
\* refresh is running at the time of the forced call.
C11_ForceResetsAge ==
    [][ForcedCallStep
          => NeedFetch(bg_live_data', now' - bg_live_time', FALSE)]_vars

\* ============================================================ kill logic
\* smart_manager.get_kill_candidates / estimate_freed_mb and the dashboard
\* controls of app.py that issue force-stop requests.

\* Input domains of the process lists.  One package of KILL_BLOCKLIST and
\* two that are not in it; scores below and at MIN_KILL_SCORE; PSS values
\* (KB) that are equal for some processes and differ for others.
PackageNames == {"com.android.systemui", "com.whatsapp", "com.android.chrome"}
KillScores == {MIN_KILL_SCORE - 1, MIN_KILL_SCORE}
PssValues == {256, 768}

\* The fields of ProcessInfo that the kill logic reads, and the pid.
ProcessInfo(pid, package_name, pss_kb, kill_score) ==
    [pid |-> pid, package_name |-> package_name, pss_kb |-> pss_kb,
     kill_score |-> kill_score]

\* Process lists of up to MaxProcs entries; the i-th process has pid i.
ProcLists ==
    UNION {
        {[i \in 1..n |-> ProcessInfo(i, f[i][1], f[i][2], f[i][3])] :
            f \in [1..n -> PackageNames \X PssValues \X KillScores]} :
        n \in 0..MaxProcs}

\* Mutant of IsCandidate: the blocklist is not consulted.
IsCandidate_ScoreOnly(p) ==
    p.kill_score >= MIN_KILL_SCORE

\* p.kill_score >= MIN_KILL_SCORE and p.package_name not in KILL_BLOCKLIST
IsCandidate(p) ==
    /\ p.kill_score >= MIN_KILL_SCORE
    /\ p.package_name \notin KILL_BLOCKLIST

\* Mutant of InsertByPss: p goes in front of the elements with an equal key
\* (an ascending sort that is reversed afterwards).
InsertByPss_BeforeEqual(s, p) ==
    LET k == Cardinality({i \in 1..Len(s) : s[i].pss_kb > p.pss_kb})
    IN  SubSeq(s, 1, k) \o <<p>> \o SubSeq(s, k + 1, Len(s))

\* One insertion of list.sort(key=lambda p: p.pss_kb, reverse=True) into an
\* already ordered list: p goes behind every element whose key is not
\* smaller, so equal keys keep their order (the sort is stable).
InsertByPss(s, p) ==
    LET k == Cardinality({i \in 1..Len(s) : s[i].pss_kb >= p.pss_kb})
    IN  SubSeq(s, 1, k) \o <<p>> \o SubSeq(s, k + 1, Len(s))

RECURSIVE SortByPssDesc(_)
\* candidates.sort(key=lambda p: p.pss_kb, reverse=True)
SortByPssDesc(s) ==
    IF s = <<>>
    THEN <<>>
    ELSE InsertByPss(SortByPssDesc(SubSeq(s, 1, Len(s) - 1)), s[Len(s)])

\* get_kill_candidates(processes, memory); `memory` is not read by the code.
get_kill_candidates(procs) ==
    SortByPssDesc(SelectSeq(procs, IsCandidate))

RECURSIVE SumPss(_)
\* sum(p.pss_kb for p in candidates)
SumPss(s) ==
    IF s = <<>> THEN 0 ELSE s[1].pss_kb + SumPss(Tail(s))

\* round(kb / 1024, 1) in tenths of a MB.  kb / 1024 is exact in binary
\* floating point, so round() rounds the exact quotient, ties to even.
RoundMb(kb) ==
    LET q == (kb * 10) \div 1024
        r == (kb * 10) % 1024
    IN  IF 2 * r < 1024 THEN q
        ELSE IF 2 * r > 1024 THEN q + 1
        ELSE IF q % 2 = 0 THEN q ELSE q + 1

\* Mutant of estimate_freed_mb: the mean PSS is estimated, not the sum.
estimate_freed_mb_Mean(cands) ==
    IF cands = <<>> THEN 0 ELSE RoundMb(SumPss(cands) \div Len(cands))

\* estimate_freed_mb(candidates), in tenths of a MB
estimate_freed_mb(cands) ==
    RoundMb(SumPss(cands))

\* The packages named by a list of ProcessInfo.
PackagesOf(s) ==
    {s[i].package_name : i \in 1..Len(s)}

\* tab_smart: candidates = get_kill_candidates(processes, memory)
\*            freed_est = estimate_freed_mb(candidates)
Render ==
    /\ ~shown
    /\ candidates' = get_kill_candidates(processes)
    /\ freed_est' = estimate_freed_mb(candidates')
    /\ shown' = TRUE
    /\ UNCHANGED <<processes, requested>>

\* Mutant of Killable: the Stop buttons are offered by score alone.
Killable_ScoreOnly(procs) ==
    SelectSeq(procs, LAMBDA p : p.kill_score >= 3)

\* tab_processes: killable = [p for p in processes if p.kill_score >= 3
\*                            and p.package_name not in KILL_BLOCKLIST]
Killable(procs) ==
    SelectSeq(procs, LAMBDA p : /\ p.kill_score >= 3
                                /\ p.package_name \notin KILL_BLOCKLIST)

\* tab_processes, "Stop" button of the i-th killable process:
\* force_stop_app(p.package_name)
StopApp(i) ==
    /\ shown
    /\ i \in 1..Len(Killable(processes))
    /\ requested' = {Killable(processes)[i].package_name}
    /\ UNCHANGED <<processes, candidates, freed_est, shown>>

\* tab_smart, "Kill Selected Processes": the options chosen in the
\* multiselect are mapped back to packages, _sel_candidates are the
\* candidates with those packages, force_stop_batch(_pkgs).
KillSelected(selected) ==
    LET _selected_packages == {candidates[i].package_name : i \in selected}
        _sel_candidates ==
            SelectSeq(candidates,
                      LAMBDA c : c.package_name \in _selected_packages)
    IN  /\ shown
        /\ _sel_candidates # <<>>
        /\ requested' = PackagesOf(_sel_candidates)
        /\ UNCHANGED <<processes, candidates, freed_est, shown>>

\* tab_smart, quick-kill "Stop" button of the i-th candidate:
\* force_stop_app(c.package_name)
QuickKill(i) ==
    /\ shown
    /\ i \in 1..Len(candidates)
    /\ requested' = {candidates[i].package_name}
    /\ UNCHANGED <<processes, candidates, freed_est, shown>>

\* tab_smart, "Optimize Now": force_stop_batch of every candidate package.
OptimizeNow ==
    /\ shown
    /\ candidates # <<>>
    /\ requested' = PackagesOf(candidates)
    /\ UNCHANGED <<processes, candidates, freed_est, shown>>

\* A render cycle receives some process list.
InitKill ==
    /\ CacheInit
    /\ processes \in ProcLists
    /\ candidates = <<>>
    /\ freed_est = 0
    /\ shown = FALSE
    /\ requested = {}
    /\ UsageIdle
    /\ ProcIdle

\* The kill controls touch neither the cache nor the other values.
KillRest == UNCHANGED <<cacheVars, usageVars, procVars>>

NextKill ==
    \/ Render /\ KillRest
    \/ \E i \in 1..Len(processes) : StopApp(i) /\ KillRest
    \/ \E selected \in SUBSET (1..Len(candidates)) :
          KillSelected(selected) /\ KillRest
    \/ \E i \in 1..Len(candidates) : QuickKill(i) /\ KillRest
    \/ OptimizeNow /\ KillRest

SpecKill == InitKill /\ [][NextKill]_vars

\* C12: get_kill_candidates returns only elements of the input list, none
\* of them twice; every returned element has kill_score >= MIN_KILL_SCORE
\* and a package_name outside KILL_BLOCKLIST; and every input element with
\* both properties is returned.
C12_CandidatesAreTheEligible ==
    shown =>
        /\ \A i \in 1..Len(candidates) :
              /\ \E j \in 1..Len(processes) : processes[j] = candidates[i]
              /\ candidates[i].kill_score >= MIN_KILL_SCORE
              /\ candidates[i].package_name \notin KILL_BLOCKLIST
        /\ \A i, k \in 1..Len(candidates) :
              i # k => candidates[i] # candidates[k]
        /\ \A j \in 1..Len(processes) :
              (/\ processes[j].kill_score >= MIN_KILL_SCORE
               /\ processes[j].package_name \notin KILL_BLOCKLIST)
                 => \E i \in 1..Len(candidates) : candidates[i] = processes[j]

\* C12 witness: a list with a blocklisted package of sufficient score, a
\* low-score package outside the blocklist and one eligible process.
C12_Witness ==
    /\ shown
    /\ Len(candidates) = 1
    /\ \E j \in 1..Len(processes) :
          /\ processes[j].package_name \in KILL_BLOCKLIST
          /\ processes[j].kill_score >= MIN_KILL_SCORE
    /\ \E j \in 1..Len(processes) :
          /\ processes[j].package_name \notin KILL_BLOCKLIST
          /\ processes[j].kill_score < MIN_KILL_SCORE

\* C13: the output of get_kill_candidates is ordered by pss_kb, largest
\* first, and candidates with equal pss_kb appear in the relative order they
\* have in the input list.
C13_OrderedByPssStable ==
    shown =>
        \A i, k \in 1..Len(candidates) :
            i < k =>
                /\ candidates[i].pss_kb >= candidates[k].pss_kb
                /\ candidates[i].pss_kb = candidates[k].pss_kb
                     => \E a, b \in 1..Len(processes) :
                           /\ a < b
                           /\ processes[a] = candidates[i]
                           /\ processes[b] = candidates[k]

\* C13 witness: the sort has moved a candidate in front of an earlier one and
\* two candidates have equal pss_kb.
C13_Witness ==
    /\ shown
    /\ \E i, k \in 1..Len(candidates) :
          i < k /\ candidates[i].pid > candidates[k].pid
    /\ \E i, k \in 1..Len(candidates) :
          i < k /\ candidates[i].pss_kb = candidates[k].pss_kb

\* C14: no force-stop request issued by a dashboard action (per-app Stop,
\* Kill Selected, Quick Kill, Optimize Now) names a package of
\* KILL_BLOCKLIST, whatever the scores in the process list.
C14_NoBlocklistedForceStop ==
    requested \cap KILL_BLOCKLIST = {}

\* C14 witness: a batch request for several packages has been issued while
\* the process list holds a blocklisted package whose score reaches
\* MIN_KILL_SCORE.
C14_Witness ==
    /\ Cardinality(requested) >= 2
    /\ \E j \in 1..Len(processes) :
          /\ processes[j].package_name \in KILL_BLOCKLIST
          /\ processes[j].kill_score >= MIN_KILL_SCORE

\* ====================================================== memory and usage
\* memory_reader.get_system_memory / get_proc_meminfo,
\* smart_manager.calculate_usage_percent / get_system_recommendation and
\* their composition in the render cycle of app.py.

\* A KB figure matched by a regular expression (digits only, so never
\* negative), or no match.
KbValues == 0..MaxKb
Found == KbValues \cup {NoMatch}

\* The dump of a 4 GB device with 3355443 KB in use.
ScenarioDump ==
    [Total |-> 4194304, Used |-> 3355443, Free |-> 838861,
     Lost |-> NoMatch, Status |-> NoStatus, DumpsysOk |-> TRUE,
     MemTotal |-> NoMatch, MemFree |-> NoMatch, MemAvailable |-> NoMatch,
     ProcOk |-> TRUE]

\* A dump is what the commands that get_system_memory() runs give: a command
\* on which run_adb raises has no output to search, and `cat /proc/meminfo`
\* is run only when `dumpsys meminfo` succeeded without all of total, used
\* and free.
FallbackRuns(d) ==
    /\ d.DumpsysOk
    /\ (d.Total = NoMatch \/ d.Used = NoMatch \/ d.Free = NoMatch)

IsDump(d) ==
    /\ ~d.DumpsysOk =>
          /\ d.Total = NoMatch /\ d.Used = NoMatch /\ d.Free = NoMatch
          /\ d.Lost = NoMatch /\ d.Status = NoStatus
    /\ (~d.ProcOk \/ ~FallbackRuns(d)) =>
          d.MemTotal = NoMatch /\ d.MemFree = NoMatch
              /\ d.MemAvailable = NoMatch
    /\ ~FallbackRuns(d) => d.ProcOk

Dumps ==
    {d \in [Total : Found, Used : Found, Free : Found,
            Lost : {NoMatch, MaxKb}, Status : {NoStatus, "Moderate"},
            DumpsysOk : BOOLEAN,
            MemTotal : Found, MemFree : Found, MemAvailable : Found,
            ProcOk : BOOLEAN] : IsDump(d)}
        \cup {ScenarioDump}

\* run_adb raised RuntimeError and the function did not return a value.
RuntimeError == [raised |-> "RuntimeError"]

\* str.lower() on the status words of the dumps
Lower(word) ==
    CASE word = "Moderate" -> "moderate"
      [] word = "Normal" -> "normal"
      [] OTHER -> word

\* get_proc_meminfo(): total_kb and free_kb default to 0 when their fields
\* are missing, MemAvailable is preferred to MemFree, used_kb is computed.
\* The RuntimeError of run_adb("cat /proc/meminfo") is not caught.
get_proc_meminfo(d) ==
    LET total_kb == IF d.MemTotal # NoMatch THEN d.MemTotal ELSE 0
        free_kb  == IF d.MemAvailable # NoMatch THEN d.MemAvailable
                    ELSE IF d.MemFree # NoMatch THEN d.MemFree ELSE 0
        used_kb  == total_kb - free_kb
    IN  IF ~d.ProcOk
        THEN RuntimeError
        ELSE MemoryInfo(total_kb, used_kb, free_kb, 0, "normal")

\* Mutant of get_system_memory: the fallback keeps the total of the
\* dumpsys output when it was found.
get_system_memory_KeepsTotal(d) ==
    IF ~d.DumpsysOk
    THEN RuntimeError
    ELSE IF d.Total # NoMatch /\ d.Used # NoMatch /\ d.Free # NoMatch
    THEN MemoryInfo(d.Total, d.Used, d.Free,
                    IF d.Lost # NoMatch THEN d.Lost ELSE 0,
                    IF d.Status # NoStatus THEN Lower(d.Status) ELSE "normal")
    ELSE IF d.ProcOk /\ d.Total # NoMatch
    THEN [get_proc_meminfo(d) EXCEPT !.total_kb = d.Total]
    ELSE get_proc_meminfo(d)

\* get_system_memory(): the dumpsys fields if total, used and free were all
\* found, otherwise the /proc/meminfo fallback.  The RuntimeError of
\* run_adb("dumpsys meminfo") is not caught.
get_system_memory(d) ==
    IF ~d.DumpsysOk
    THEN RuntimeError
    ELSE IF d.Total # NoMatch /\ d.Used # NoMatch /\ d.Free # NoMatch
    THEN MemoryInfo(d.Total, d.Used, d.Free,
                    IF d.Lost # NoMatch THEN d.Lost ELSE 0,
                    IF d.Status # NoStatus THEN Lower(d.Status) ELSE "normal")
    ELSE get_proc_meminfo(d)

\* Mutant of calculate_usage_percent: the result is rounded to one decimal.
calculate_usage_percent_Rounded(m) ==
    IF m.total_kb = 0
    THEN <<0, 1>>
    ELSE LET num == m.used_kb * 100
             q   == num \div m.total_kb
             r   == num % m.total_kb
             d   == (r * 10) \div m.total_kb
             r2  == (r * 10) % m.total_kb
             up  == IF 2 * r2 >= m.total_kb THEN 1 ELSE 0
         IN  <<q * 10 + d + up, 10>>

\* Mutant of calculate_usage_percent: the test for total_kb == 0 is missing.
calculate_usage_percent_NoGuard(m) ==
    <<m.used_kb * 100, m.total_kb>>

\* calculate_usage_percent(memory): (used_kb / total_kb) * 100, or 0.0 when
\* total_kb is 0.  The float result is kept as the exact fraction
\* <<used_kb * 100, total_kb>>; for KB figures the comparisons of the double
\* with 60 and 80 agree with those of the exact fraction.
calculate_usage_percent(m) ==
    IF m.total_kb = 0
    THEN <<0, 1>>
    ELSE <<m.used_kb * 100, m.total_kb>>

\* pct >= bound, for a fraction pct with a positive denominator
AtLeast(pct, bound) ==
    pct[1] >= bound * pct[2]

\* Mutant of get_system_recommendation: the bounds are compared with >.
get_system_recommendation_Strict(pct) ==
    IF pct[1] > THRESHOLD_CRITICAL * pct[2] THEN "critical"
    ELSE IF pct[1] > THRESHOLD_WARNING * pct[2] THEN "warning"
    ELSE "healthy"

\* get_system_recommendation(usage_pct): the severity of the returned triple
get_system_recommendation(pct) ==
    IF AtLeast(pct, THRESHOLD_CRITICAL) THEN "critical"
    ELSE IF AtLeast(pct, THRESHOLD_WARNING) THEN "warning"
    ELSE "healthy"

\* round(usage_pct, 1): the nearest tenth, a tie going to the even tenth,
\* as <<tenths, 10>>.
RoundToTenth(pct) ==
    LET q   == pct[1] \div pct[2]
        r   == pct[1] % pct[2]
        d   == (r * 10) \div pct[2]
        r2  == (r * 10) % pct[2]
        low == q * 10 + d
        up  == IF 2 * r2 > pct[2] THEN 1
               ELSE IF 2 * r2 = pct[2] THEN low % 2
               ELSE 0
    IN  <<low + up, 10>>

\* memory = get_system_memory(), run by the refresh that feeds the render,
\* when it returns: the triple with this snapshot is stored
ReadMemory ==
    /\ upos = "dump"
    /\ get_system_memory(dump) # RuntimeError
    /\ memory' = get_system_memory(dump)
    /\ upos' = "memory"
    /\ UNCHANGED <<dump, usage_pct, severity, _usage_pct, _sev>>

\* memory = get_system_memory(), when it raises: the worker's
\* `except Exception: pass` ends the fetch cycle and nothing is stored
ReadMemoryRaises ==
    /\ upos = "dump"
    /\ get_system_memory(dump) = RuntimeError
    /\ upos' = "raised"
    /\ UNCHANGED <<dump, memory, usage_pct, severity, _usage_pct, _sev>>

\* usage_pct = calculate_usage_percent(memory)
ComputeUsage ==
    /\ upos = "memory"
    /\ usage_pct' = calculate_usage_percent(memory)
    /\ upos' = "usage"
    /\ UNCHANGED <<dump, memory, severity, _usage_pct, _sev>>

\* severity, rec_title, rec_detail = get_system_recommendation(usage_pct)
Classify ==
    /\ upos = "usage"
    /\ severity' = get_system_recommendation(usage_pct)
    /\ upos' = "done"
    /\ UNCHANGED <<dump, memory, usage_pct, _usage_pct, _sev>>

\* The algorithm tab of the same render:
\* _usage_pct = round(usage_pct, 1)
\* _sev, _title, _detail = get_system_recommendation(_usage_pct)
AlgorithmTab ==
    /\ upos = "done"
    /\ _usage_pct' = RoundToTenth(usage_pct)
    /\ _sev' = get_system_recommendation(RoundToTenth(usage_pct))
    /\ upos' = "tab"
    /\ UNCHANGED <<dump, memory, usage_pct, severity>>

\* The device answers with some dump.
InitUsage ==
    /\ CacheInit
    /\ KillIdle
    /\ ProcIdle
    /\ dump \in Dumps
    /\ memory = MemoryInfo(0, 0, 0, 0, "normal")
    /\ usage_pct = <<0, 1>>
    /\ severity = "none"
    /\ _usage_pct = <<0, 10>>
    /\ _sev = "none"
    /\ upos = "dump"

UsageRest == UNCHANGED <<cacheVars, killVars, procVars>>

NextUsage ==
    \/ ReadMemory /\ UsageRest
    \/ ReadMemoryRaises /\ UsageRest
    \/ ComputeUsage /\ UsageRest
    \/ Classify /\ UsageRest
    \/ AlgorithmTab /\ UsageRest

SpecUsage == InitUsage /\ [][NextUsage]_vars

\* C15: for every snapshot with total_kb = 0, whatever used_kb is,
\* calculate_usage_percent returns exactly 0 (and is defined: the division
\* is not evaluated).
C15_ZeroTotalGivesZero ==
    (upos \in {"usage", "done"} /\ memory.total_kb = 0)
        => usage_pct = <<0, 1>>

\* C15 witness: the usage of a snapshot with total_kb = 0 and used_kb > 0
\* has been computed.
C15_Witness ==
    /\ upos = "usage"
    /\ memory.total_kb = 0
    /\ memory.used_kb > 0

\* C16: for every snapshot with total_kb > 0 that the memory parsers
\* produce (dumpsys fields, or the fallback with used = total - free),
\* calculate_usage_percent lies between 0 and 100.
C16_UsageWithinZeroToHundred ==
    (upos \in {"usage", "done"} /\ memory.total_kb > 0)
        => /\ AtLeast(usage_pct, 0)
           /\ usage_pct[1] <= 100 * usage_pct[2]

\* The order healthy < warning < critical.
SeverityRank(sev) ==
    CASE sev = "healthy" -> 0
      [] sev = "warning" -> 1
      [] sev = "critical" -> 2

\* Percent values around and away from the two bounds, as fractions.
ProbePercents ==
    {<<n, 1>> : n \in {-100, 0, 50, 59, 60, 61, 79, 80, 81, 100, 125}}

\* C17: get_system_recommendation returns exactly one of critical, warning
\* and healthy for every percent value: critical iff percent >= 80, warning
\* iff 60 <= percent < 80, healthy iff percent < 60; hence the severity
\* never decreases as the percent increases, and 50.0 is healthy.
C17_ThreeWayClassification ==
    /\ upos = "done" =>
          /\ severity \in {"critical", "warning", "healthy"}
          /\ (severity = "critical") = (usage_pct[1] >= 80 * usage_pct[2])
          /\ (severity = "warning") = (/\ usage_pct[1] >= 60 * usage_pct[2]
                                       /\ usage_pct[1] < 80 * usage_pct[2])
          /\ (severity = "healthy") = (usage_pct[1] < 60 * usage_pct[2])
          /\ \A q \in ProbePercents :
                /\ usage_pct[1] * q[2] <= q[1] * usage_pct[2]
                     => SeverityRank(severity)
                          <= SeverityRank(get_system_recommendation(q))
                /\ q[1] * usage_pct[2] <= usage_pct[1] * q[2]
                     => SeverityRank(get_system_recommendation(q))
                          <= SeverityRank(severity)
    /\ get_system_recommendation(<<50, 1>>) = "healthy"

\* C17 witness: a usage of exactly 60 percent has been classified as warning.
C17_Witness ==
    /\ upos = "done"
    /\ memory.total_kb > 0
    /\ usage_pct[1] = 60 * usage_pct[2]
    /\ severity = "warning"

\* The snapshot total_kb = 4194304, used_kb = 3355443 has been classified.
ScenarioClassified ==
    /\ upos = "done"
    /\ memory.total_kb = 4194304
    /\ memory.used_kb = 3355443

\* C18 as stated: for the snapshot total_kb = 4194304, used_kb = 3355443,
\* calculate_usage_percent followed by get_system_recommendation yields
\* severity critical.
C18_ScenarioIsCritical ==
    ScenarioClassified => severity = "critical"

\* C18 amended: for that snapshot the usage is 335544300 / 4194304, which is
\* below 80 (79.99999523...), and the composition yields severity warning.
C18_ScenarioIsWarning ==
    ScenarioClassified =>
        /\ usage_pct = <<335544300, 4194304>>
        /\ usage_pct[1] < 80 * usage_pct[2]
        /\ severity = "warning"

\* C18 witness: the scenario snapshot has been read, measured and classified.
C18_Witness ==
    /\ ScenarioClassified
    /\ dump = ScenarioDump
    /\ severity # "none"

\* Candidates that may be added to a candidate list: none, little, as much
\* as the listed ones, and far more memory.
ExtraCandidates ==
    {ProcessInfo(0, "com.whatsapp", kb, MIN_KILL_SCORE) :
        kb \in {0, 10, 256, 768, 1000000}}

\* C19: estimate_freed_mb is the sum of pss_kb divided by 1024 and rounded
\* to one decimal (ties to even), and it is monotonic: adding a candidate to
\* a candidate list never makes the estimate smaller.
C19_EstimateMonotonic ==
    shown =>
        /\ freed_est = estimate_freed_mb(candidates)
        /\ 2 * (1024 * freed_est - 10 * SumPss(candidates)) <= 1024
        /\ 2 * (10 * SumPss(candidates) - 1024 * freed_est) <= 1024
        /\ (2 * (1024 * freed_est - 10 * SumPss(candidates)) \in {1024, -1024})
              => freed_est % 2 = 0
        /\ \A c \in ExtraCandidates :
              /\ estimate_freed_mb(Append(candidates, c)) >= freed_est
              /\ estimate_freed_mb(<<c>> \o candidates) >= freed_est

\* C19 witness: for a non-empty candidate list, one added candidate with
\* pss_kb > 0 leaves the rounded estimate as it is and another raises it.
C19_Witness ==
    /\ shown
    /\ candidates # <<>>
    /\ \E c \in ExtraCandidates :
          /\ c.pss_kb > 0
          /\ estimate_freed_mb(Append(candidates, c)) = freed_est
    /\ \E c \in ExtraCandidates :
          estimate_freed_mb(Append(candidates, c)) > freed_est

\* ======================================================== process reader
\* process_reader.get_running_processes and its helpers.

\* Input domains of the two tables: a package inside and one outside
\* KILL_BLOCKLIST; priority codes of the OOM_PRIORITY table and one ("hvy")
\* that the table does not hold.
ProcPackages == {"com.android.systemui", "com.whatsapp"}
OomCodes == {"fore", "cch", "bak", "hvy"}

RECURSIVE _get_pss_map(_)
\* _get_pss_map(): package -> (pss_kb, pid), the first entry per package is
\* kept; a dict iterates in insertion order, so the map is the sequence of
\* kept entries.  The pid of a line is its position in the table.
_get_pss_map(lines) ==
    IF lines = <<>>
    THEN <<>>
    ELSE LET n    == Len(lines)
             rest == _get_pss_map(SubSeq(lines, 1, n - 1))
         IN  IF \E j \in 1..Len(rest) : rest[j].package = lines[n][1]
             THEN rest
             ELSE Append(rest, [package |-> lines[n][1],
                                pss_kb |-> lines[n][2], pid |-> n])

\* _get_oom_map(): package -> oom_code, a later line of a package replaces
\* an earlier one; {} when the command fails.
_get_oom_map(ok, lines) ==
    IF ~ok
    THEN <<>>
    ELSE [package \in {lines[i][2] : i \in 1..Len(lines)} |->
            LET last == CHOOSE i \in 1..Len(lines) :
                           /\ lines[i][2] = package
                           /\ \A j \in (i + 1)..Len(lines) :
                                 lines[j][2] # package
            IN  lines[last][1]]

\* Mutant of _oom_info: an unknown code gets the score of a cached process.
_oom_info_DefaultCached(code) ==
    IF code \in DOMAIN OOM_PRIORITY
    THEN <<OOM_PRIORITY[code].label, OOM_PRIORITY[code].score>>
    ELSE <<OOM_DEFAULT_LABEL, 5>>

\* _oom_info(code): (label, score)
_oom_info(code) ==
    IF code \in DOMAIN OOM_PRIORITY
    THEN <<OOM_PRIORITY[code].label, OOM_PRIORITY[code].score>>
    ELSE <<OOM_DEFAULT_LABEL, OOM_DEFAULT_SCORE>>

\* Mutant of RunningProcess: a package without a priority line is taken
\* for a cached process.
RunningProcess_DefaultCached(entry, oom_map) ==
    LET oom_code == IF entry.package \in DOMAIN oom_map
                    THEN oom_map[entry.package]
                    ELSE "cch"
    IN  [pid |-> entry.pid,
         package_name |-> entry.package,
         pss_kb |-> entry.pss_kb,
         oom_adj |-> oom_code,
         oom_label |-> _oom_info(oom_code)[1],
         kill_score |-> _oom_info(oom_code)[2]]

\* The ProcessInfo built in the loop of get_running_processes() for one
\* entry of the size table.  The pid is the one of the size table; the pid
\* of the priority table, which the code prefers when it has one, and the
\* user are not carried.
RunningProcess(entry, oom_map) ==
    LET oom_code == IF entry.package \in DOMAIN oom_map
                    THEN oom_map[entry.package]
                    ELSE "bak"
    IN  [pid |-> entry.pid,
         package_name |-> entry.package,
         pss_kb |-> entry.pss_kb,
         oom_adj |-> oom_code,
         oom_label |-> _oom_info(oom_code)[1],
         kill_score |-> _oom_info(oom_code)[2]]

\* Mutant of get_running_processes: the list is left in the order of the
\* size table.
get_running_processes_Unsorted(pss_map, oom_map) ==
    [i \in 1..Len(pss_map) |-> RunningProcess(pss_map[i], oom_map)]

\* get_running_processes(): one ProcessInfo per entry of the size table,
\* sorted by pss_kb, largest first.
get_running_processes(pss_map, oom_map) ==
    SortByPssDesc([i \in 1..Len(pss_map) |->
                      RunningProcess(pss_map[i], oom_map)])

\* Mutant of GetRunningProcesses: a failure of the priority command is not
\* caught and get_running_processes() raises.
GetRunningProcesses_NeedsPriority ==
    /\ ppos = "input"
    /\ pss_ok
    /\ proc_list' = IF oom_ok
                    THEN get_running_processes(_get_pss_map(pss_lines),
                                               _get_oom_map(oom_ok, oom_lines))
                    ELSE proc_list
    /\ ppos' = IF oom_ok THEN "listed" ELSE "raised"
    /\ UNCHANGED <<pss_lines, oom_lines, oom_ok, pss_ok>>

\* processes = get_running_processes(), when run_adb("dumpsys meminfo")
\* succeeds in _get_pss_map
GetRunningProcesses ==
    /\ ppos = "input"
    /\ pss_ok
    /\ proc_list' = get_running_processes(_get_pss_map(pss_lines),
                                          _get_oom_map(oom_ok, oom_lines))
    /\ ppos' = "listed"
    /\ UNCHANGED <<pss_lines, oom_lines, oom_ok, pss_ok>>

\* processes = get_running_processes(), when run_adb("dumpsys meminfo")
\* raises RuntimeError in _get_pss_map: nothing catches it before the
\* worker's `except Exception: pass`, and nothing is stored.
GetRunningProcessesRaises ==
    /\ ppos = "input"
    /\ ~pss_ok
    /\ ppos' = "raised"
    /\ UNCHANGED <<pss_lines, oom_lines, oom_ok, pss_ok, proc_list>>

\* The rest of _bg_fetch_live after get_running_processes() has returned:
\* get_device_info() never raises, and the triple is stored.
StoreAfterListing ==
    /\ ppos = "listed"
    /\ ppos' = "stored"
    /\ UNCHANGED <<pss_lines, oom_lines, oom_ok, pss_ok, proc_list>>

\* Sequences of at most n elements of S.
SeqUpTo(S, n) ==
    UNION {[1..k -> S] : k \in 0..n}

\* The device answers with some size table and some priority table, or
\* either command fails; a failed command has no lines.
InitProc ==
    /\ CacheInit
    /\ KillIdle
    /\ UsageIdle
    /\ pss_lines \in SeqUpTo(ProcPackages \X PssValues, MaxPssLines)
    /\ oom_lines \in SeqUpTo(OomCodes \X ProcPackages, MaxOomLines)
    /\ oom_ok \in BOOLEAN
    /\ pss_ok \in BOOLEAN
    /\ ~oom_ok => oom_lines = <<>>
    /\ ~pss_ok => pss_lines = <<>>
    /\ proc_list = <<>>
    /\ ppos = "input"

ProcRest == UNCHANGED <<cacheVars, killVars, usageVars>>

NextProc ==
    \/ GetRunningProcesses /\ ProcRest
    \/ GetRunningProcessesRaises /\ ProcRest
    \/ StoreAfterListing /\ ProcRest

SpecProc == InitProc /\ [][NextProc]_vars

\* C20: every ProcessInfo produced by get_running_processes has the
\* kill_score of the OOM_PRIORITY entry of its oom_adj code, or the default
\* score 3 when the code is not in the table; every score lies in 0..5, and
\* the default lies strictly between the never-kill score 0 and the maximal
\* score 5.
C20_KillScoreFromTable ==
    /\ \A i \in 1..Len(proc_list) :
          /\ proc_list[i].kill_score =
                IF proc_list[i].oom_adj \in DOMAIN OOM_PRIORITY
                THEN OOM_PRIORITY[proc_list[i].oom_adj].score
                ELSE 3
          /\ proc_list[i].kill_score \in 0..5
    /\ \A code \in DOMAIN OOM_PRIORITY : OOM_PRIORITY[code].score \in 0..5
    /\ \E code \in DOMAIN OOM_PRIORITY : OOM_PRIORITY[code].score = 0
    /\ \E code \in DOMAIN OOM_PRIORITY : OOM_PRIORITY[code].score = 5
    /\ 0 < OOM_DEFAULT_SCORE
    /\ OOM_DEFAULT_SCORE < 5

\* C20 witness: the list holds a process whose code is in the table and one
\* whose code is not.
C20_Witness ==
    /\ ppos = "listed"
    /\ \E i \in 1..Len(proc_list) : proc_list[i].oom_adj = "cch"
    /\ \E i \in 1..Len(proc_list) :
          proc_list[i].oom_adj \notin DOMAIN OOM_PRIORITY

\* The packages of the size table and of the priority table, and the first
\* line of a package in the size table.
SizeTablePackages == {pss_lines[i][1] : i \in 1..Len(pss_lines)}

PriorityTablePackages == {oom_lines[i][2] : i \in 1..Len(oom_lines)}

FirstLine(package) ==
    CHOOSE i \in 1..Len(pss_lines) :
        /\ pss_lines[i][1] = package
        /\ \A j \in 1..(i - 1) : pss_lines[j][1] # package

Returned == ppos \in {"listed", "stored"}

\* C21: a package of the size table that the priority table does not hold
\* is in the list returned by get_running_processes, with the default
\* priority code "bak" and a kill_score of 4, below the maximum 5.
C21_UnlistedPriorityGetsDefault ==
    Returned =>
        \A package \in SizeTablePackages \ PriorityTablePackages :
            \E i \in 1..Len(proc_list) :
                /\ proc_list[i].package_name = package
                /\ proc_list[i].oom_adj = "bak"
                /\ proc_list[i].kill_score = 4
                /\ proc_list[i].kill_score < 5

\* C21 witness: the priority command succeeded and its table holds one
\* package of the size table and lacks another.
C21_Witness ==
    /\ Returned
    /\ oom_ok
    /\ SizeTablePackages \ PriorityTablePackages # {}
    /\ SizeTablePackages \cap PriorityTablePackages # {}
    /\ \E i \in 1..Len(proc_list) : proc_list[i].oom_adj = "cch"

\* C22: when the priority command fails and the size command succeeds,
\* get_running_processes does not raise: it returns one record for every
\* package of the size table, each with the default priority code, and the
\* worker goes on to store the triple.
C22_PriorityFailureTolerated ==
    /\ (~oom_ok /\ pss_ok) => ppos # "raised"
    /\ (~oom_ok /\ Returned) =>
          /\ {proc_list[i].package_name : i \in 1..Len(proc_list)}
                = SizeTablePackages
          /\ Len(proc_list) = Cardinality(SizeTablePackages)
          /\ \A i \in 1..Len(proc_list) : proc_list[i].oom_adj = "bak"
    /\ (~oom_ok /\ ppos = "listed") => ENABLED StoreAfterListing

\* C22 witness: the priority command failed, the list holds two packages
\* and the triple with it has been stored.
C22_Witness ==
    /\ ~oom_ok
    /\ ppos = "stored"
    /\ Len(proc_list) = 2

\* C26: the list returned by get_running_processes holds exactly one record
\* per distinct package of the size table, with the size of the package's
\* first line, and is ordered by pss_kb, non-increasing.
C26_OnePerPackageFirstSizeSorted ==
    Returned =>
        /\ Len(proc_list) = Cardinality(SizeTablePackages)
        /\ \A package \in SizeTablePackages :
              \E i \in 1..Len(proc_list) :
                  /\ proc_list[i].package_name = package
                  /\ proc_list[i].pss_kb = pss_lines[FirstLine(package)][2]
        /\ \A i \in 1..Len(proc_list) :
              proc_list[i].package_name \in SizeTablePackages
        /\ \A i \in 1..Len(proc_list) : \A j \in (i + 1)..Len(proc_list) :
              proc_list[i].pss_kb >= proc_list[j].pss_kb

\* C26 witness: a package has two lines of different sizes, the first of
\* them smaller than the line of another package that follows it.
C26_Witness ==
    /\ Returned
    /\ Len(pss_lines) = 3
    /\ pss_lines[1][1] = pss_lines[3][1]
    /\ pss_lines[1][2] < pss_lines[3][2]
    /\ pss_lines[2][1] # pss_lines[1][1]
    /\ pss_lines[1][2] < pss_lines[2][2]
    /\ Len(proc_list) = 2
    /\ proc_list[2].package_name = pss_lines[1][1]

\* ================================================= memory reader failures

\* get_system_memory() has returned or raised.
MemoryRead == upos # "dump"

\* get_system_memory() has returned a snapshot, which the worker stores.
SnapshotReturned == upos \in {"memory", "usage", "done", "tab"}

\* The dumpsys output gives total, used and free.
PrimaryComplete ==
    /\ dump.DumpsysOk
    /\ dump.Total # NoMatch
    /\ dump.Used # NoMatch
    /\ dump.Free # NoMatch

\* The /proc/meminfo output gives a total and an available or free figure.
FallbackComplete ==
    /\ dump.ProcOk
    /\ dump.MemTotal # NoMatch
    /\ (dump.MemAvailable # NoMatch \/ dump.MemFree # NoMatch)

\* C23: if the primary dump does not yield all of total, used and free and
\* the fallback dump does not yield its required fields either,
\* get_system_memory fails the fetch cycle: it raises, nothing is stored,
\* and no snapshot with fields set to zero is returned.
C23_BothFailingIsFatal ==
    (MemoryRead /\ ~PrimaryComplete /\ ~FallbackComplete) =>
        /\ upos = "raised"
        /\ ~SnapshotReturned

\* C24: when the dumpsys command succeeds and its output lacks any of the
\* total, used or free fields, no value of that output is used: with the
\* /proc/meminfo output at hand get_system_memory returns the snapshot with
\* total_kb from MemTotal, free_kb from MemAvailable if present, else from
\* MemFree, used_kb = total_kb - free_kb, lost_kb = 0 and status "normal".
C24_FallbackSnapshotOnly ==
    (MemoryRead /\ FallbackRuns(dump) /\ dump.ProcOk) =>
        /\ SnapshotReturned
        /\ memory.total_kb =
              (IF dump.MemTotal # NoMatch THEN dump.MemTotal ELSE 0)
        /\ memory.free_kb =
              (IF dump.MemAvailable # NoMatch THEN dump.MemAvailable
               ELSE IF dump.MemFree # NoMatch THEN dump.MemFree ELSE 0)
        /\ memory.used_kb = memory.total_kb - memory.free_kb
        /\ memory.lost_kb = 0
        /\ memory.status = "normal"

\* C24 witness: the dumpsys output has a total, a lost figure and a status
\* but no used figure; the snapshot has the other total of /proc/meminfo
\* and its available figure, which differs from its free figure.
C24_Witness ==
    /\ upos = "memory"
    /\ dump.Total # NoMatch
    /\ dump.Used = NoMatch
    /\ dump.Lost # NoMatch
    /\ dump.Status # NoStatus
    /\ dump.MemTotal # NoMatch
    /\ dump.MemTotal # dump.Total
    /\ dump.MemAvailable # NoMatch
    /\ dump.MemFree # NoMatch
    /\ dump.MemFree # dump.MemAvailable
    /\ memory.total_kb = dump.MemTotal
    /\ memory.free_kb = dump.MemAvailable
    /\ memory.used_kb > 0

\* C25: if the `dumpsys meminfo` command itself fails, get_system_memory
\* does not fail the fetch cycle: it returns the snapshot of the
\* /proc/meminfo source.
C25_CommandFailureFallsBack ==
    (MemoryRead /\ ~dump.DumpsysOk) =>
        /\ upos # "raised"
        /\ SnapshotReturned

\* C27: every snapshot that get_system_memory returns, and the worker
\* stores, has non-negative total_kb, used_kb, free_kb and lost_kb, for
\* every combination of fields present in and absent from the two dumps.
C27_SnapshotFieldsNonNegative ==
    SnapshotReturned =>
        /\ memory.total_kb >= 0
        /\ memory.used_kb >= 0
        /\ memory.free_kb >= 0
        /\ memory.lost_kb >= 0

\* C30: for every snapshot the severity of the overview
\* (get_system_recommendation of the unrounded usage_pct) equals the
\* severity of the algorithm tab (get_system_recommendation of usage_pct
\* rounded to one decimal).
C30_OverviewAndTabAgree ==
    upos = "tab" => _sev = severity

\* ====================================================== order of refreshes
\* A Thread object is started through the global _bg_thread, which holds
\* the object created last; a worker can only have been started before the
\* next Thread object was created, so the workers that run were started in
\* the order of their ids.

\* C29: the cached triple is never replaced by the result of a refresh that
\* was started earlier than the refresh which produced the cached triple:
\* the stores happen in the order in which the refreshes were started.
C29_StoresInStartOrder ==
    [][(bg_live_data # None /\ bg_live_data' # bg_live_data)
          => /\ bg_live_data' # None
             /\ bg_live_data'[1] > bg_live_data[1]]_vars

\* ================================================== progress of refreshes
\* A worker runs three fetches, each a sequence of run_adb calls that
\* subprocess.run ends after ADB_TIMEOUT_SECONDS at the latest, and then
\* takes _bg_lock, which every holder releases after two assignments: a
\* worker that runs ends, with a store or in the except clause.
WorkerEnds(t) ==
    (FetchFail(t) \/ StoreLive(t)) /\ Rest

SpecLive ==
    Init /\ [][Next]_vars /\ \A t \in ThreadIds : WF_vars(WorkerEnds(t))

\* A call at the test of line 491 that needs a fetch while the Thread in
\* _bg_thread, if any, is not alive goes on to create a Thread.
RestartAfterEnd ==
    \A r \in InProgress :
        (/\ r.pc = "check"
         /\ r.need
         /\ ~IsAlive(bg_thread)
         /\ CopiesIn(r, calls') < CopiesIn(r, calls))
            => BagIn([r EXCEPT !.pc = "create", !.mustStart = TRUE], calls')

\* A step other than a store leaves a populated cache as it is.
CacheKept ==
    (bg_live_data # None /\ bg_live_data' # bg_live_data)
        => \E t \in ThreadIds : /\ threads[t] = "run"
                                /\ threads'[t] = "done"
                                /\ bg_live_data' = Fetched(t)

\* A call that began on a populated cache and found a refresh in flight has
\* returned the cached value it read, without waiting.
ServedMeanwhile ==
    \A r \in Observed :
        (r.found /\ ~r.empty) => /\ r.pc = "returned"
                                 /\ r.data # None
                                 /\ ~r.waited

\* C28: every background refresh that starts eventually finishes, with a
\* store or a failure; after it has finished a later collect_live_data()
\* call that needs a fetch can start a new refresh; the controller is never
\* left with a refresh in flight for ever; and meanwhile the cached value
\* is kept and returned to the calls that find the refresh in flight.
C28_RefreshEndsAndCacheServed ==
    /\ \A t \in ThreadIds :
          (threads[t] = "run") ~> (threads[t] \in {"done", "failed"})
    /\ []<>(Running = {})
    /\ [][RestartAfterEnd]_vars
    /\ [][CacheKept]_vars
    /\ []ServedMeanwhile

\* C28 witness: the first refresh has stored its triple, a later call has
\* started a second refresh, and a call that found it in flight has
\* returned the triple of the first.
C28_Witness ==
    /\ threads[1] = "done"
    /\ threads[2] = "run"
    /\ bg_thread = 2
    /\ bg_live_data = Fetched(1)
    /\ finished.pc = "returned"
    /\ finished.found
    /\ finished.data = Fetched(1)

====
